---- MODULE Spec2Model ----
(***************************************************************************)
(* The spaced-repetition scheduling engine of smart-learning-cards         *)
(* (SpacedRepetitionEngine, frontend/src/utils/superMemo.ts) together with *)
(* the application state it is used on (the card deck of App).             *)
(*                                                                         *)
(* Units.  Time is counted in hours (a day is HoursPerDay hours); the wall *)
(* clock `now` is what Date.now() returns.  easeFactor is held in          *)
(* thousandths (2.5 is 2500) and a quality argument in tenths (2.5 is 25), *)
(* so that every Math.round of the source is a rounding of the model too.  *)
(* For the two-decimal ease factors the program stores and intervals below *)
(* 25 the IEEE-754 product interval * easeFactor rounds as the exact       *)
(* product does, so the integer arithmetic below is the source's.          *)
(***************************************************************************)
EXTENDS Integers, Sequences, FiniteSets, TLC

VARIABLES
    now,      \* the wall clock, Date.now()
    cards,    \* App's `cards` state: the deck
    last,     \* the most recent engine call: its arguments, clock reads and result
    trail,    \* the engine calls made so far, oldest first (kept by the logged actions)
    view      \* the state of the study mode on screen (RepeatMode, ExamMode), if any

vars == <<now, cards, last, trail, view>>

----------------------------------------------------------------------------
\* Bounds of the model

Start == 48            \* the clock value at start-up
MaxDrift == 1          \* the clock runs up to Start + MaxDrift while a card is reviewed
MaxSkew == 1           \* the clock advances by at most this much inside one call
MaxInterval == 8       \* a correct review is taken only from an interval up to this
MaxEaseSteps == 1      \* ... and only from an ease factor up to 2.5 + 0.1 * this
MaxTrail == 3          \* the logged actions keep at most this many calls
MaxDays == 2           \* a forecast is asked for 1..MaxDays days, or for the default 7

----------------------------------------------------------------------------
\* Program constants

HoursPerDay == 24
DstShift == 1
DefaultEase == 2500
DefaultInterval == 1
DefaultRepetitions == 0
MinEase == 1300
FailPenalty == 200
FirstInterval == 1
SecondInterval == 6
MinQuality == 0
MaxQuality == 5
PassQuality == 3
LowEase == 2000
MasteredEase == 2500
MasteredInterval == 7
DefaultDays == 7
ScheduleDays == 7
ExamBaseScore == 10
MaxTimeBonus == 5

Max(a, b) == IF a >= b THEN a ELSE b
Min(a, b) == IF a <= b THEN a ELSE b

\* Math.round(num / den) for den > 0: the nearest integer, a tie going up.
MathRound(num, den) == (2 * num + den) \div (2 * den)

----------------------------------------------------------------------------
\* Local calendar arithmetic (Date.prototype.getDate / setDate)

\* The host's time zone: local time is UTC until the clocks jump forward by
\* DstShift, one hour into the day after start-up.
Zone == [dst |-> TRUE, start |-> Start + HoursPerDay + 1]

\* Hours the local clock is ahead of UTC at instant t.
TzOffset(t, z) == IF z.dst /\ t >= z.start THEN DstShift ELSE 0

\* The instant at which the local clock reads `local`; a reading that the
\* forward jump skips is resolved with the offset in force before the jump.
LocalToUtc(local, z) ==
    IF z.dst /\ local >= z.start + DstShift THEN local - DstShift ELSE local

\* SetDatePlus with the days left out: setDate(getDate()).
SetDateSame(t, days, z) == LocalToUtc(t + TzOffset(t, z), z)

\* d = new Date(t); d.setDate(d.getDate() + days); d.getTime()
SetDatePlus(t, days, z) == LocalToUtc(t + TzOffset(t, z) + days * HoursPerDay, z)

----------------------------------------------------------------------------
\* Cards

NoData == <<>>
HasData(card) == card.sm2Data # NoData
Data(card) == card.sm2Data[1]

SM2(ef, iv, reps, next, lastRev) ==
    [easeFactor |-> ef, interval |-> iv, repetitions |-> reps,
     nextReview |-> next, lastReviewed |-> lastRev]

\* MOCK_CARDS, evaluated when the module loads at clock value t, and a card as
\* handleCardsCreated makes it (no sm2Data, no reviewHistory).
MockCard1(t) == [id |-> 1, sm2Data |-> <<SM2(2500, 1, 0, t, t)>>, reviewHistory |-> <<>>]
MockCard2(t) ==
    [id |-> 2, sm2Data |-> <<SM2(2300, 3, 1, t - HoursPerDay, t - HoursPerDay)>>,
     reviewHistory |-> <<>>]
MockCard3(t) == [id |-> 3, sm2Data |-> NoData, reviewHistory |-> <<"difficult">>]
GeneratedCard == [id |-> 4, sm2Data |-> NoData, reviewHistory |-> <<>>]

----------------------------------------------------------------------------
\* SpacedRepetitionEngine.calculateNextReview

\* CurrentData with nothing substituted for a missing state.
CurrentDataBlank(card, t) ==
    IF HasData(card) THEN Data(card) ELSE SM2(0, 0, 0, t, t)

\* card.sm2Data || { easeFactor: 2.5, interval: 1, repetitions: 0, ... }
\* (the two Date.now() values of the default are never read afterwards)
CurrentData(card, t) ==
    IF HasData(card) THEN Data(card)
    ELSE SM2(DefaultEase, DefaultInterval, DefaultRepetitions, t, t)

\* ClampQuality without the upper clamp.
ClampQualityNoUpper(quality) == Max(MinQuality, MathRound(quality, 10))

\* Math.max(0, Math.min(5, Math.round(quality))), quality given in tenths
ClampQuality(quality) == Max(MinQuality, Min(MaxQuality, MathRound(quality, 10)))

\* 0.1 - (5 - q) * (0.08 + (5 - q) * 0.02), in thousandths
EaseDelta(q) == 100 - (MaxQuality - q) * (80 + (MaxQuality - q) * 20)

\* The branch on quality >= 3: the values of repetitions, interval and
\* easeFactor when the if statement is left.
\* NextRepetitions with the branch taken on quality > 3.
NextRepetitionsStrict(cur, q) == IF q > PassQuality THEN cur.repetitions + 1 ELSE 0

\* NextRepetitions with a failure leaving the count as it is.
NextRepetitionsKept(cur, q) == IF q >= PassQuality THEN cur.repetitions + 1 ELSE cur.repetitions

NextRepetitions(cur, q) == IF q >= PassQuality THEN cur.repetitions + 1 ELSE 0

\* NextEase without the floor on the incorrect branch.
NextEaseNoFloor(cur, q) ==
    IF q >= PassQuality
    THEN Max(MinEase, cur.easeFactor + EaseDelta(q))
    ELSE cur.easeFactor - FailPenalty

\* NextEase with the same penalty on both branches.
NextEaseFlat(cur, q) == Max(MinEase, cur.easeFactor - FailPenalty)

NextEase(cur, q) ==
    IF q >= PassQuality
    THEN Max(MinEase, cur.easeFactor + EaseDelta(q))
    ELSE Max(MinEase, cur.easeFactor - FailPenalty)

\* NextInterval with a failed card scheduled after 0 days.
NextIntervalZero(cur, q) ==
    IF q >= PassQuality
    THEN IF cur.repetitions + 1 = 1 THEN FirstInterval
         ELSE IF cur.repetitions + 1 = 2 THEN SecondInterval
         ELSE MathRound(cur.interval * cur.easeFactor, 1000)
    ELSE 0

\* NextInterval leaving the interval as it is from the third success on.
NextIntervalRepeated(cur, q) ==
    IF q >= PassQuality
    THEN IF cur.repetitions + 1 = 1 THEN FirstInterval
         ELSE IF cur.repetitions + 1 = 2 THEN SecondInterval
         ELSE cur.interval
    ELSE 1

\* NextInterval without the fixed second interval.
NextIntervalScaled(cur, q) ==
    IF q >= PassQuality
    THEN IF cur.repetitions + 1 = 1 THEN FirstInterval
         ELSE MathRound(cur.interval * cur.easeFactor, 1000)
    ELSE 1

\* NextInterval multiplying by the ease factor this review has just updated.
NextIntervalNewEase(cur, q) ==
    IF q >= PassQuality
    THEN IF cur.repetitions + 1 = 1 THEN FirstInterval
         ELSE IF cur.repetitions + 1 = 2 THEN SecondInterval
         ELSE MathRound(cur.interval * NextEase(cur, q), 1000)
    ELSE 1

NextInterval(cur, q) ==
    IF q >= PassQuality
    THEN IF cur.repetitions + 1 = 1 THEN FirstInterval
         ELSE IF cur.repetitions + 1 = 2 THEN SecondInterval
         ELSE MathRound(cur.interval * cur.easeFactor, 1000)
    ELSE 1

\* Math.round(easeFactor * 100) / 100
RoundEase(ef) == MathRound(ef, 10) * 10

\* The whole call.  t68 is the clock read by `new Date()` (line 68) and t76
\* the clock read by the closing Date.now() (line 76).
calculateNextReview(card, quality, t68, t76, z) ==
    LET cur == CurrentData(card, t68)
        q == ClampQuality(quality)
        interval == NextInterval(cur, q)
    IN  SM2(RoundEase(NextEase(cur, q)), interval, NextRepetitions(cur, q),
            SetDatePlus(t68, interval, z), t76)

\* cardAfterCall with the new state written into the card it was read from.
cardAfterCallInPlace(card, result) == [card EXCEPT !.sm2Data = <<result>>]

\* The card object when the call returns.  Line 36 copies easeFactor, interval
\* and repetitions into local variables, lines 39-65 assign those locals only,
\* and the result is a new object literal (lines 71-77): nothing is written
\* to card or to card.sm2Data.
cardAfterCall(card, result) == card

----------------------------------------------------------------------------
\* SpacedRepetitionEngine.getDueCards

\* IsDue with the boundary left out: nextReview < now.
IsDueStrict(card, t) ==
    IF ~HasData(card) \/ Data(card).nextReview = 0 THEN TRUE
    ELSE Data(card).nextReview < t

\* The filter's predicate: !card.sm2Data?.nextReview (no sm2Data, or a
\* nextReview that is falsy, which for a number is 0), or nextReview <= now.
IsDue(card, t) ==
    IF ~HasData(card) \/ Data(card).nextReview = 0 THEN TRUE
    ELSE Data(card).nextReview <= t

\* getDueCards returning the due cards most recent first.
getDueCardsReversed(deck, t) ==
    LET due == SelectSeq(deck, LAMBDA card : IsDue(card, t))
    IN  [j \in DOMAIN due |-> due[Len(due) + 1 - j]]

\* cards.filter(...), with t the value Date.now() returned on line 84
getDueCards(deck, t) == SelectSeq(deck, LAMBDA card : IsDue(card, t))

----------------------------------------------------------------------------
\* SpacedRepetitionEngine.getDifficultCards

\* card.reviewHistory?.some(r => r.response === 'unknown' || r.response === 'difficult')
HasDifficultHistory(card) ==
    \E k \in DOMAIN card.reviewHistory : card.reviewHistory[k] \in {"unknown", "difficult"}

\* card.sm2Data?.easeFactor && card.sm2Data.easeFactor < 2.0
HasLowEaseFactor(card) ==
    IF HasData(card)
    THEN Data(card).easeFactor # 0 /\ Data(card).easeFactor < LowEase
    ELSE FALSE

\* IsDifficult without the conjunct isDue.
IsDifficultAnyTime(card, t) == HasDifficultHistory(card) \/ HasLowEaseFactor(card)

\* IsDifficult without the disjunct hasLowEaseFactor.
IsDifficultByHistory(card, t) == HasDifficultHistory(card) /\ IsDue(card, t)

\* The filter's predicate: (hasDifficultHistory || hasLowEaseFactor) && isDue,
\* isDue being the predicate of getDueCards written out again on line 113.
IsDifficult(card, t) ==
    (HasDifficultHistory(card) \/ HasLowEaseFactor(card)) /\ IsDue(card, t)

\* cards.filter(...), with t the value Date.now() returned on line 101
getDifficultCards(deck, t) == SelectSeq(deck, LAMBDA card : IsDifficult(card, t))

----------------------------------------------------------------------------
\* SpacedRepetitionEngine.responseToQuality

\* responseToQuality taking 'difficult' for a failure.
responseToQualityHarsh(response) ==
    CASE response = "know" -> 5
      [] response = "difficult" -> 2
      [] response = "unknown" -> 1
      [] OTHER -> 1

\* The switch of lines 123-132.
responseToQuality(response) ==
    CASE response = "know" -> 5
      [] response = "difficult" -> 3
      [] response = "unknown" -> 1
      [] OTHER -> 1

----------------------------------------------------------------------------
\* SpacedRepetitionEngine.getStudyStats

\* card.sm2Data?.lastReviewed (truthy)
IsReviewed(card) == IF HasData(card) THEN Data(card).lastReviewed # 0 ELSE FALSE

\* card.sm2Data?.easeFactor (truthy)
HasEase(card) == IF HasData(card) THEN Data(card).easeFactor # 0 ELSE FALSE

\* IsMastered without the condition on the interval.
IsMasteredByEase(card) ==
    IF HasData(card)
    THEN Data(card).easeFactor # 0 /\ Data(card).easeFactor > MasteredEase
    ELSE FALSE

\* easeFactor && easeFactor > 2.5 && interval && interval > 7
IsMastered(card) ==
    IF HasData(card)
    THEN /\ Data(card).easeFactor # 0 /\ Data(card).easeFactor > MasteredEase
         /\ Data(card).interval # 0 /\ Data(card).interval > MasteredInterval
    ELSE FALSE

\* cardsWithEase.reduce((sum, card) => sum + card.sm2Data.easeFactor, 0)
RECURSIVE SumEase(_)
SumEase(deck) ==
    IF deck = <<>> THEN 0 ELSE Data(Head(deck)).easeFactor + SumEase(Tail(deck))

\* The values Math.round(x * 100) / 100 can take for x = sum / n thousandths.
\* Away from a tie it is the nearest hundredth.  On a tie (x ends in 5
\* thousandths) the double nearest to x lies on either side of the tie, so
\* the result is the hundredth below or the one above.
RoundMean(sum, n) ==
    IF (2 * sum) % (20 * n) = 10 * n
    THEN {((sum - 5 * n) \div (10 * n)) * 10, ((sum + 5 * n) \div (10 * n)) * 10}
    ELSE {MathRound(sum, 10 * n) * 10}

\* AvgEaseFactor dividing by the number of all cards.
AvgEaseFactorOfAll(deck) ==
    LET cardsWithEase == SelectSeq(deck, HasEase)
    IN  IF Len(cardsWithEase) > 0
        THEN RoundMean(SumEase(cardsWithEase), Len(deck))
        ELSE {DefaultEase}

\* Lines 145-148 and 163: the values avgEaseFactor can take.
AvgEaseFactor(deck) ==
    LET cardsWithEase == SelectSeq(deck, HasEase)
    IN  IF Len(cardsWithEase) > 0
        THEN RoundMean(SumEase(cardsWithEase), Len(cardsWithEase))
        ELSE {DefaultEase}

\* MasteryPercentage reporting 100 for a deck without cards.
MasteryPercentageFull(mastered, total) ==
    IF total > 0 THEN MathRound(100 * mastered, total) ELSE 100

\* total > 0 ? Math.round((masteredCards / total) * 100) : 0
MasteryPercentage(mastered, total) ==
    IF total > 0 THEN MathRound(100 * mastered, total) ELSE 0

\* The whole call.  t84 and t101 are the clock values getDueCards and
\* getDifficultCards read (lines 141 and 142), avg one of AvgEaseFactor(deck).
getStudyStats(deck, t84, t101, avg) ==
    [total |-> Len(deck),
     reviewed |-> Len(SelectSeq(deck, IsReviewed)),
     due |-> Len(getDueCards(deck, t84)),
     difficult |-> Len(getDifficultCards(deck, t101)),
     mastered |-> Len(SelectSeq(deck, IsMastered)),
     masteryPercentage |-> MasteryPercentage(Len(SelectSeq(deck, IsMastered)), Len(deck)),
     avgEaseFactor |-> avg]

----------------------------------------------------------------------------
\* SpacedRepetitionEngine.getUpcomingReviews

\* date.toISOString().split('T')[0]: the UTC calendar date, as a day number
UtcDate(t) == t \div HoursPerDay

\* The key of iteration i: the date i local calendar days after t, in UTC.
DateKey(t, i, z) == UtcDate(SetDatePlus(t, i, z))

\* OnDate counting every card scheduled up to the date.
OnDateOrBefore(card, key) ==
    IF ~HasData(card) \/ Data(card).nextReview = 0 THEN FALSE
    ELSE UtcDate(Data(card).nextReview) <= key

\* The filter of lines 179-183.
OnDate(card, key) ==
    IF ~HasData(card) \/ Data(card).nextReview = 0 THEN FALSE
    ELSE UtcDate(Data(card).nextReview) = key

\* The schedule object after the loop: an entry written twice under one key
\* holds the same count both times.
getUpcomingReviews(deck, days, t, z) ==
    [key \in {DateKey(t, i, z) : i \in 0..(days - 1)} |->
        Len(SelectSeq(deck, LAMBDA card : OnDate(card, key)))]

----------------------------------------------------------------------------
\* RepeatMode: the review list, [...new Set([...difficult, ...due])]

\* The positions of the deck whose card is selected.  A Set of objects holds
\* references, and a card's position in the deck stands for its reference.
DifficultRefs(deck, t) ==
    SelectSeq([k \in DOMAIN deck |-> k], LAMBDA k : IsDifficult(deck[k], t))

DueRefs(deck, t) == SelectSeq([k \in DOMAIN deck |-> k], LAMBDA k : IsDue(deck[k], t))

\* SetOrder keeping every occurrence: plain concatenation.
SetOrderKeepAll(refs) == refs

\* [...new Set(refs)]: each reference once, in the order of its first occurrence.
SetOrder(refs) ==
    LET first == SelectSeq([j \in DOMAIN refs |-> j],
                           LAMBDA j : \A i \in 1..(j - 1) : refs[i] # refs[j])
    IN  [n \in DOMAIN first |-> refs[first[n]]]

\* The effect of lines 39-51: t101 and t84 are the clock values the two
\* engine calls read, in the order the effect makes them.
reviewCards(deck, t101, t84) ==
    LET refs == SetOrder(DifficultRefs(deck, t101) \o DueRefs(deck, t84))
    IN  [n \in DOMAIN refs |-> deck[refs[n]]]

----------------------------------------------------------------------------
\* App.handleUpdateCard: the card with this id gets the new sm2Data

handleUpdateCard(deck, cardId, sm2Data) ==
    [k \in DOMAIN deck |->
        IF deck[k].id = cardId THEN [deck[k] EXCEPT !.sm2Data = <<sm2Data>>]
        ELSE deck[k]]

----------------------------------------------------------------------------
\* The state machine

\* Quality arguments, in tenths: the six scores, values out of range on both
\* sides and fractional values on both sides of a rounding tie.
Qualities == {-50, 0, 10, 20, 24, 25, 30, 40, 50, 990}

NoCall == [op |-> "none"]

\* No study mode is mounted.
NoView == [mode |-> "none"]

\* The correct branch grows interval and easeFactor without limit; the model
\* follows it from the bounded part of the state space only.
InBounds(card, quality) ==
    LET cur == CurrentData(card, now)
    IN  ClampQuality(quality) >= PassQuality =>
            /\ cur.interval <= MaxInterval
            /\ cur.easeFactor <= DefaultEase + 100 * MaxEaseSteps

\* What a call read and returned: whether the card had sm2Data, the three
\* fields line 36 takes from it, the quality argument and the two clock reads.
CallRecord(i, quality, t76, result) ==
    LET cur == CurrentData(cards[i], now)
    IN  [op |-> "calculateNextReview", id |-> cards[i].id, hadData |-> HasData(cards[i]),
         easeFactor |-> cur.easeFactor, interval |-> cur.interval,
         repetitions |-> cur.repetitions, quality |-> quality,
         t68 |-> now, t76 |-> t76, result |-> result]

\* RepeatMode.handleSM2Response on card i: the engine call, then onUpdateCard.
\* The clock may advance by d between the call's two reads of it.
ReviewStep(i, quality, d) ==
    /\ i \in DOMAIN cards
    /\ InBounds(cards[i], quality)
    /\ now + d <= Start + MaxDrift
    /\ LET result == calculateNextReview(cards[i], quality, now, now + d, Zone)
       IN  /\ last' = CallRecord(i, quality, now + d, result)
           /\ cards' = handleUpdateCard(cards, cards[i].id, result)
    /\ now' = now + d

Review(i, quality, d) ==
    /\ ReviewStep(i, quality, d)
    /\ UNCHANGED <<trail, view>>

\* calculateNextReview on card i with nothing stored: the engine call alone.
ProbeStep(i, quality, d) ==
    /\ i \in DOMAIN cards
    /\ InBounds(cards[i], quality)
    /\ now + d <= Start + MaxDrift
    /\ last' = CallRecord(i, quality, now + d,
                          calculateNextReview(cards[i], quality, now, now + d, Zone))
    /\ now' = now + d
    /\ UNCHANGED cards

\* The same two operations, each call entered in the trail with the card it
\* was made on and whether its result was stored.
Logged(stored) ==
    /\ Len(trail) < MaxTrail
    /\ trail' = Append(trail, [call |-> last', card |-> cards[1], stored |-> stored])
    /\ UNCHANGED view

LoggedReview(quality, d) == ReviewStep(1, quality, d) /\ Logged(TRUE)

LoggedProbe(quality, d) == ProbeStep(1, quality, d) /\ Logged(FALSE)

\* Time passes between two operations.
Tick(d, limit) ==
    /\ now + d <= limit
    /\ now' = now + d
    /\ UNCHANGED <<cards, last, trail, view>>

TypeOK ==
    /\ now \in Nat
    /\ cards \in Seq([id : Nat, sm2Data : Seq([easeFactor : Nat, interval : Int,
                      repetitions : Nat, nextReview : Nat, lastReviewed : Nat]),
                      reviewHistory : Seq(STRING)])

\* One card of the deck under review: a mock card or a generated one.
StartCards(t) == {MockCard1(t), MockCard2(t), MockCard3(t), GeneratedCard}

Init ==
    /\ now = Start
    /\ cards \in {<<c>> : c \in StartCards(Start)}
    /\ last = NoCall
    /\ trail = <<>>
    /\ view = NoView

Next ==
    \/ \E i \in DOMAIN cards, quality \in Qualities, d \in 0..MaxSkew : Review(i, quality, d)
    \/ Tick(1, Start + MaxDrift)

Spec == Init /\ [][Next]_vars

\* The deck of the application and the selector run on it.  A study session
\* reviews the cards that are due (RepeatMode lists no others), on the day the
\* application starts; the selector is asked on that day and on the next.
DeckQualities == {10, 50}

MockCards(t) == <<MockCard1(t), MockCard2(t), MockCard3(t)>>

SessionReview(i, quality, d) ==
    /\ i \in DOMAIN cards
    /\ IsDue(cards[i], now)
    /\ Review(i, quality, d)

DueQuery ==
    /\ last' = [op |-> "getDueCards", cards |-> cards, now |-> now,
                result |-> getDueCards(cards, now)]
    /\ UNCHANGED <<now, cards, trail, view>>

DifficultQuery ==
    /\ last' = [op |-> "getDifficultCards", cards |-> cards, now |-> now,
                result |-> getDifficultCards(cards, now)]
    /\ UNCHANGED <<now, cards, trail, view>>

\* RepeatMode's effect on `cards`: the review list is built from two engine
\* calls, between which the clock may advance by d.
RepeatStart(d) ==
    /\ now + d <= Start + HoursPerDay + MaxDrift
    /\ last' = [op |-> "reviewCards", cards |-> cards, t101 |-> now, t84 |-> now + d,
                difficult |-> getDifficultCards(cards, now),
                due |-> getDueCards(cards, now + d),
                result |-> reviewCards(cards, now, now + d)]
    /\ now' = now + d
    /\ UNCHANGED <<cards, trail, view>>

\* A card with the state the engine gives it when it is rated at time t.
Rated(card, quality, t) ==
    [card EXCEPT !.sm2Data = <<calculateNextReview(card, quality, t, t, Zone)>>]

\* Decks of an application that has been in use: the second mock card failed
\* twice (on the two days before t, an hour later than t), and a generated
\* card rated 5 three times (eight days, seven days and one day before t).
HardCard(t) ==
    Rated(Rated(MockCard2(t - 2 * HoursPerDay + 1), 10, t - 2 * HoursPerDay + 1),
          10, t - HoursPerDay + 1)

MasteredCard(t) ==
    Rated(Rated(Rated(GeneratedCard, 50, t - 8 * HoursPerDay), 50, t - 7 * HoursPerDay),
          50, t - HoursPerDay)

UsedCards(t) == <<MasteredCard(t), HardCard(t), MockCard3(t)>>

InitDeck ==
    /\ now = Start
    /\ cards \in {<<>>, MockCards(Start), MockCards(Start) \o <<GeneratedCard>>,
                 UsedCards(Start)}
    /\ last = NoCall
    /\ trail = <<>>
    /\ view = NoView

NextDeck ==
    \/ \E i \in DOMAIN cards, quality \in DeckQualities, d \in 0..MaxSkew :
            SessionReview(i, quality, d)
    \/ DueQuery
    \/ DifficultQuery
    \/ \E d \in 0..MaxSkew : RepeatStart(d)
    \/ Tick(1, Start + MaxDrift)
    \/ Tick(HoursPerDay, Start + HoursPerDay + MaxDrift)

SpecDeck == InitDeck /\ [][NextDeck]_vars

\* The same deck and sessions, with the statistics and the forecast asked for.
StatsQuery(d) ==
    /\ now + d <= Start + HoursPerDay + MaxDrift
    /\ \E avg \in AvgEaseFactor(cards) :
          last' = [op |-> "getStudyStats", cards |-> cards, t84 |-> now, t101 |-> now + d,
                   result |-> getStudyStats(cards, now, now + d, avg)]
    /\ now' = now + d
    /\ UNCHANGED <<cards, trail, view>>

UpcomingQuery(days) ==
    /\ last' = [op |-> "getUpcomingReviews", cards |-> cards, days |-> days, now |-> now,
                result |-> getUpcomingReviews(cards, days, now, Zone)]
    /\ UNCHANGED <<now, cards, trail, view>>

NextStats ==
    \/ \E i \in DOMAIN cards, quality \in DeckQualities, d \in 0..MaxSkew :
            SessionReview(i, quality, d)
    \/ \E d \in 0..MaxSkew : StatsQuery(d)
    \/ \E days \in (1..MaxDays) \cup {DefaultDays} : UpcomingQuery(days)
    \/ Tick(1, Start + MaxDrift)
    \/ Tick(HoursPerDay, Start + HoursPerDay + MaxDrift)

SpecStats == InitDeck /\ [][NextStats]_vars

\* The engine called on its own: calculateNextReview returns a state that the
\* caller stores in a second step, if at all, and the four read operations
\* are asked in between.
Compute(i, quality, d) ==
    /\ i \in DOMAIN cards
    /\ IsDue(cards[i], now)
    /\ InBounds(cards[i], quality)
    /\ now + d <= Start + MaxDrift
    /\ LET result == calculateNextReview(cards[i], quality, now, now + d, Zone)
       IN  /\ last' = CallRecord(i, quality, now + d, result)
           /\ cards' = [cards EXCEPT ![i] = cardAfterCall(cards[i], result)]
    /\ now' = now + d
    /\ UNCHANGED <<trail, view>>

Store ==
    /\ last.op = "calculateNextReview"
    /\ cards' = handleUpdateCard(cards, last.id, last.result)
    /\ last' = [op |-> "handleUpdateCard", id |-> last.id]
    /\ UNCHANGED <<now, trail, view>>

NextEngine ==
    \/ \E i \in DOMAIN cards, quality \in DeckQualities, d \in 0..MaxSkew : Compute(i, quality, d)
    \/ Store
    \/ DueQuery
    \/ DifficultQuery
    \/ \E d \in 0..MaxSkew : StatsQuery(d)
    \/ UpcomingQuery(DefaultDays)
    \/ Tick(1, Start + MaxDrift)
    \/ Tick(HoursPerDay, Start + HoursPerDay + MaxDrift)

SpecEngine == InitDeck /\ [][NextEngine]_vars

----------------------------------------------------------------------------
\* RepeatMode: a session over the review list

\* The ratings a session is given, in whole points (handleSM2Response takes
\* 0..5; calculateNextReview's model takes tenths).
SessionScores == {1, 5}

RECURSIVE SumSeq(_)
SumSeq(seq) == IF seq = <<>> THEN 0 ELSE Head(seq) + SumSeq(Tail(seq))

\* showRepeatResults, called with the dueCards and qualityScores of the render
\* the handler belongs to; avgQuality in hundredths.
showRepeatResults(dueCards, qualityScores, startTime, t) ==
    [totalCards |-> Len(dueCards),
     reviewedCards |-> Len(qualityScores),
     avgQuality |-> IF Len(qualityScores) > 0
                    THEN MathRound(100 * SumSeq(qualityScores), Len(qualityScores))
                    ELSE 0,
     timeSpent |-> t - startTime,
     nextReviewSchedule |-> getUpcomingReviews(dueCards, ScheduleDays, t, Zone)]

\* The component mounts: useState initialisers, then the effect of lines
\* 39-51 builds the review list from two engine calls.
OpenRepeat(d) ==
    /\ view = NoView
    /\ last = NoCall
    /\ now + d <= Start + MaxDrift
    /\ LET list == reviewCards(cards, now, now + d)
       IN  /\ view' = [mode |-> "repeat", dueCards |-> list, currentIndex |-> 0,
                       startTime |-> now, qualityScores |-> <<>>,
                       showCompletion |-> (list = <<>>), results |-> <<>>]
           /\ last' = [op |-> "RepeatMode", started |-> list]
    /\ now' = now + d
    /\ UNCHANGED <<cards, trail>>

\* handleSM2Response on the card on screen, with the state updates it queues
\* applied and the effect of lines 39-51 run again because `cards` changed.
\* showRepeatResults runs inside the handler, before any of the updates.
RateCard(quality, d) ==
    /\ view.mode = "repeat"
    /\ ~view.showCompletion
    /\ view.currentIndex + 1 \in DOMAIN view.dueCards
    /\ now + d <= Start + MaxDrift
    /\ LET card == view.dueCards[view.currentIndex + 1]
           sm2Result == calculateNextReview(card, 10 * quality, now, now + d, Zone)
           newCards == handleUpdateCard(cards, card.id, sm2Result)
           more == view.currentIndex < Len(view.dueCards) - 1
           list == reviewCards(newCards, now + d, now + d)
       IN  /\ cards' = newCards
           /\ view' = [view EXCEPT
                          !.qualityScores = Append(@, quality),
                          !.currentIndex = IF more THEN @ + 1 ELSE @,
                          !.results = IF more THEN @
                                      ELSE <<showRepeatResults(view.dueCards, view.qualityScores,
                                                               view.startTime, now + d)>>,
                          !.dueCards = list,
                          !.showCompletion = (~more) \/ (list = <<>>)]
           /\ trail' = Append(trail, [card |-> card.id, quality |-> quality])
    /\ now' = now + d
    /\ UNCHANGED last

\* The timer of showRepeatResults fires: onComplete(results), and
\* StudySession.handleComplete navigates away.
CompleteRepeat ==
    /\ view.mode = "repeat"
    /\ view.results # <<>>
    /\ last' = [op |-> "onComplete", mode |-> "repeat", started |-> last.started,
                results |-> view.results[1]]
    /\ view' = NoView
    /\ UNCHANGED <<now, cards, trail>>

NextRepeat ==
    \/ \E d \in 0..MaxSkew : OpenRepeat(d)
    \/ \E quality \in SessionScores, d \in 0..MaxSkew : RateCard(quality, d)
    \/ CompleteRepeat
    \/ Tick(1, Start + MaxDrift)

SpecRepeat == InitDeck /\ [][NextRepeat]_vars

----------------------------------------------------------------------------
\* ExamMode: a session over the shuffled deck

NewExamState == [correct |-> 0, incorrect |-> 0, streak |-> 0, maxStreak |-> 0, score |-> 0]

\* showExamResults, called with the examState and shuffledCards of the render
\* the handler belongs to.  Durations are in the model's clock unit.
showExamResults(examState, shuffledCards, startTime, lastCorrect, lastScore, t) ==
    LET finalState == [examState EXCEPT
                          !.correct = @ + (IF lastCorrect THEN 1 ELSE 0),
                          !.incorrect = @ + (IF lastCorrect THEN 0 ELSE 1),
                          !.score = @ + lastScore]
    IN  [totalQuestions |-> Len(shuffledCards),
         correctAnswers |-> finalState.correct,
         incorrectAnswers |-> finalState.incorrect,
         score |-> finalState.score,
         accuracy |-> MathRound(100 * finalState.correct, Len(shuffledCards)),
         streak |-> finalState.streak,
         maxStreak |-> finalState.maxStreak,
         timeSpent |-> t - startTime,
         timePerCard |-> MathRound(t - startTime, Len(shuffledCards))]

\* The component mounts: the effect of lines 53-57 puts the cards in an order
\* that the random comparator decides.
OpenExam(order) ==
    /\ view = NoView
    /\ last = NoCall
    /\ view' = [mode |-> "exam",
                shuffledCards |-> [k \in DOMAIN cards |-> cards[order[k]]],
                currentIndex |-> 0, startTime |-> now, examState |-> NewExamState,
                showCompletion |-> FALSE, results |-> <<>>]
    /\ last' = [op |-> "ExamMode"]
    /\ UNCHANGED <<now, cards, trail>>

\* handleExamAnswer on the card on screen, with the state updates it queues
\* applied.  timeBonus is what line 79 gives for the time the answer took.
\* showExamResults runs inside the handler, before any of the updates.
AnswerCard(isCorrect, timeBonus) ==
    /\ view.mode = "exam"
    /\ ~view.showCompletion
    /\ view.currentIndex + 1 \in DOMAIN view.shuffledCards
    /\ ~isCorrect => timeBonus = 0
    /\ LET prev == view.examState
           cardScore == (IF isCorrect THEN ExamBaseScore ELSE 0)
                        + (IF isCorrect THEN prev.streak ELSE 0) + timeBonus
           newStreak == IF isCorrect THEN prev.streak + 1 ELSE 0
           more == view.currentIndex < Len(view.shuffledCards) - 1
       IN  /\ view' = [view EXCEPT
                          !.examState = [correct |-> prev.correct + (IF isCorrect THEN 1 ELSE 0),
                                         incorrect |-> prev.incorrect + (IF isCorrect THEN 0 ELSE 1),
                                         streak |-> newStreak,
                                         maxStreak |-> Max(prev.maxStreak, newStreak),
                                         score |-> prev.score + cardScore],
                          !.currentIndex = IF more THEN @ + 1 ELSE @,
                          !.showCompletion = ~more,
                          !.results = IF more THEN @
                                      ELSE <<showExamResults(prev, view.shuffledCards,
                                                             view.startTime, isCorrect,
                                                             cardScore, now)>>]
           /\ trail' = Append(trail, [card |-> view.shuffledCards[view.currentIndex + 1].id,
                                      correct |-> isCorrect])
    /\ UNCHANGED <<now, cards, last>>

\* The timer of showExamResults fires: onComplete(results), and
\* StudySession.handleComplete navigates away.
CompleteExam ==
    /\ view.mode = "exam"
    /\ view.results # <<>>
    /\ last' = [op |-> "onComplete", mode |-> "exam", results |-> view.results[1]]
    /\ view' = NoView
    /\ UNCHANGED <<now, cards, trail>>

NextExam ==
    \/ \E order \in Permutations(DOMAIN cards) : OpenExam(order)
    \/ \E isCorrect \in BOOLEAN, timeBonus \in {0, MaxTimeBonus} : AnswerCard(isCorrect, timeBonus)
    \/ CompleteExam
    \/ Tick(1, Start + MaxDrift)

SpecExam == InitDeck /\ [][NextExam]_vars

\* A review answered with a category: the category is converted to a quality
\* and the quality given to calculateNextReview.  'skip' stands for any value
\* outside the declared type.
Responses == {"know", "difficult", "unknown", "skip"}

Respond(i, response, d) ==
    LET score == responseToQuality(response)
    IN  /\ i \in DOMAIN cards
        /\ InBounds(cards[i], 10 * score)
        /\ now + d <= Start + MaxDrift
        /\ LET result == calculateNextReview(cards[i], 10 * score, now, now + d, Zone)
           IN  /\ last' = [op |-> "responseToQuality", response |-> response, score |-> score,
                           call |-> CallRecord(i, 10 * score, now + d, result)]
               /\ cards' = handleUpdateCard(cards, cards[i].id, result)
        /\ now' = now + d
        /\ UNCHANGED <<trail, view>>

NextRespond ==
    \/ \E i \in DOMAIN cards, response \in Responses, d \in 0..MaxSkew : Respond(i, response, d)
    \/ Tick(1, Start + MaxDrift)

SpecRespond == Init /\ [][NextRespond]_vars

\* A card that has never been reviewed, and a log of every call made on it.
TrailQualities == {10, 30, 40, 50}

InitTrail ==
    /\ now = Start
    /\ cards \in {<<MockCard3(Start)>>, <<GeneratedCard>>}
    /\ last = NoCall
    /\ trail = <<>>
    /\ view = NoView

NextTrail ==
    \/ \E quality \in TrailQualities, d \in 0..MaxSkew : LoggedReview(quality, d)
    \/ \E quality \in TrailQualities, d \in 0..MaxSkew : LoggedProbe(quality, d)
    \/ Tick(1, Start + MaxDrift)

SpecTrail == InitTrail /\ [][NextTrail]_vars

----------------------------------------------------------------------------
\* Properties of calculateNextReview, over the calls Spec makes

Called == last.op = "calculateNextReview"

\* The card a call was made on, as far as the call reads it.
PriorCard ==
    [id |-> last.id, reviewHistory |-> <<>>,
     sm2Data |-> IF last.hadData
                 THEN <<SM2(last.easeFactor, last.interval, last.repetitions, 0, 0)>>
                 ELSE NoData]

Numbers(r) == <<r.easeFactor, r.interval, r.repetitions>>

\* C1: whatever the sequence of reviews and their qualities, each result being
\* stored as the card's state, the returned and the stored easeFactor are at
\* least 1.3; a failure at 1.3 leaves it at 1.3.
C1_EaseFactorFloor ==
    /\ Called => last.result.easeFactor >= 1300
    /\ \A k \in DOMAIN cards : HasData(cards[k]) => Data(cards[k]).easeFactor >= 1300
    /\ (Called /\ last.easeFactor = 1300 /\ ClampQuality(last.quality) < 3)
           => last.result.easeFactor = 1300

\* A failed review of a card whose easeFactor is already 1.3.
C1_Witness ==
    /\ Called /\ last.easeFactor = 1300 /\ ClampQuality(last.quality) < 3
    /\ last.result.easeFactor = 1300

\* C2: after any sequence of reviews fed back into the card, the returned
\* interval is a whole number of days and at least 1.
C2_IntervalAtLeastOne ==
    /\ Called => (last.result.interval \in Nat /\ last.result.interval >= 1)
    /\ \A k \in DOMAIN cards : HasData(cards[k]) => Data(cards[k]).interval >= 1

\* A failed review of a card that had reached an interval of several days.
C2_Witness ==
    /\ Called /\ last.interval > 1 /\ ClampQuality(last.quality) < 3
    /\ last.result.interval = 1

\* C4: a review of quality 0, 1 or 2 returns repetitions 0, interval 1 and
\* easeFactor max(1.3, prior easeFactor - 0.2), whatever the prior state.
C4_IncorrectBranch ==
    (Called /\ last.quality \in {0, 10, 20}) =>
        /\ last.result.repetitions = 0
        /\ last.result.interval = 1
        /\ last.result.easeFactor = Max(1300, last.easeFactor - 200)

\* A failure that the floor cuts short, on a card with a success streak.
C4_Witness ==
    /\ Called /\ last.quality \in {0, 10, 20}
    /\ last.easeFactor > 1300 /\ last.easeFactor < 1500
    /\ last.repetitions > 0
    /\ last.result.easeFactor = 1300

\* C5: a review of quality exactly 3 increments repetitions, and a review of
\* quality q in {3, 4, 5} returns easeFactor max(1.3, prior + delta) with delta
\* -0.14 for 3, 0 for 4 and +0.10 for 5.
C5_CorrectBranchEase ==
    (Called /\ last.quality \in {30, 40, 50}) =>
        /\ last.result.repetitions = last.repetitions + 1
        /\ last.result.easeFactor =
              Max(1300, last.easeFactor
                        + (CASE last.quality = 30 -> -140
                             [] last.quality = 40 -> 0
                             [] last.quality = 50 -> 100))

\* A review of quality exactly 3 whose ease update the floor cuts short.
C5_Witness ==
    /\ Called /\ last.quality = 30
    /\ last.easeFactor > 1300 /\ last.easeFactor < 1440
    /\ last.result.easeFactor = 1300
    /\ last.result.repetitions = last.repetitions + 1

\* C6: quality is rounded, then clamped to 0..5: on every prior state quality
\* -5 gives the easeFactor, interval and repetitions that 0 gives, 99 those
\* that 5 gives, 2.4 those that 2 gives and 2.5 those that 3 gives.
C6_QualityNormalised ==
    Called =>
        \A pair \in {<<-50, 0>>, <<990, 50>>, <<24, 20>>, <<25, 30>>} :
            last.quality = pair[1] =>
                Numbers(last.result)
                    = Numbers(calculateNextReview(PriorCard, pair[2], last.t68, last.t76, Zone))

\* A review with quality 99 of a card that has scheduling state.
C6_Witness ==
    /\ Called /\ last.quality = 990 /\ last.hadData
    /\ last.result.repetitions = last.repetitions + 1

\* C8: in every result lastReviewed is the evaluation time, nextReview is that
\* time plus interval calendar days, and so nextReview is lastReviewed plus
\* interval days.
C8_ReviewTimes ==
    Called =>
        /\ last.result.lastReviewed = last.t68
        /\ last.result.nextReview = SetDatePlus(last.t68, last.result.interval, Zone)
        /\ last.result.nextReview
              = SetDatePlus(last.result.lastReviewed, last.result.interval, Zone)

----------------------------------------------------------------------------
\* Properties of runs of reviews, over the trail SpecTrail keeps

\* The reviews of the trail (the calls whose result was stored), oldest first.
Reviews == SelectSeq(trail, LAMBDA e : e.stored)

\* The first n reviews were all made with a quality in qs.
FirstAll(n, qs) == Len(Reviews) >= n /\ \A k \in 1..n : Reviews[k].call.quality \in qs

C7_Deterministic ==
    \A a, b \in DOMAIN trail :
        (/\ trail[a].card = trail[b].card
         /\ trail[a].call.quality = trail[b].call.quality
         /\ trail[a].call.t68 = trail[b].call.t68)
            => trail[a].call.result = trail[b].call.result

\* The part of C7 the code keeps: easeFactor, interval, repetitions and
\* nextReview are the same; only lastReviewed, a second reading of the clock,
\* can differ.
C7_SameButLastReviewed ==
    \A a, b \in DOMAIN trail :
        (/\ trail[a].card = trail[b].card
         /\ trail[a].call.quality = trail[b].call.quality
         /\ trail[a].call.t68 = trail[b].call.t68)
            => /\ Numbers(trail[a].call.result) = Numbers(trail[b].call.result)
               /\ trail[a].call.result.nextReview = trail[b].call.result.nextReview

\* C9: a new card rated 5 at T0 gets interval 1, repetitions 1, easeFactor 2.6,
\* nextReview T0 + 1 day and lastReviewed T0; rated 5 again it gets 6, 2 and
\* 2.7; rated 1 after that it gets 1, 0 and 2.5.
C9_Scenario ==
    /\ FirstAll(1, {50}) =>
          /\ Numbers(Reviews[1].call.result) = <<2600, 1, 1>>
          /\ Reviews[1].call.result.nextReview = SetDatePlus(Reviews[1].call.t68, 1, Zone)
          /\ Reviews[1].call.result.lastReviewed = Reviews[1].call.t68
    /\ FirstAll(2, {50}) => Numbers(Reviews[2].call.result) = <<2700, 6, 2>>
    /\ (FirstAll(2, {50}) /\ Len(Reviews) >= 3 /\ Reviews[3].call.quality = 10)
          => Numbers(Reviews[3].call.result) = <<2500, 1, 0>>

\* The numbers of C9 without its two timestamps.
C9_ScenarioNumbers ==
    /\ FirstAll(1, {50}) => Numbers(Reviews[1].call.result) = <<2600, 1, 1>>
    /\ FirstAll(2, {50}) => Numbers(Reviews[2].call.result) = <<2700, 6, 2>>
    /\ (FirstAll(2, {50}) /\ Len(Reviews) >= 3 /\ Reviews[3].call.quality = 10)
          => Numbers(Reviews[3].call.result) = <<2500, 1, 0>>

----------------------------------------------------------------------------
\* Properties of the card selector, over the queries SpecDeck makes

Returned(card) == \E j \in DOMAIN last.result : last.result[j] = card

\* C10: getDueCards returns exactly the cards of the collection that have no
\* scheduling state or whose nextReview is at or before the current time: a
\* card with nextReview = now is returned, one with nextReview > now is not.
C10_DueExactly ==
    last.op = "getDueCards" =>
        /\ \A k \in DOMAIN last.cards :
              Returned(last.cards[k]) <=>
                 IF last.cards[k].sm2Data = <<>> THEN TRUE
                 ELSE last.cards[k].sm2Data[1].nextReview <= last.now
        /\ \A j \in DOMAIN last.result : \E k \in DOMAIN last.cards : last.cards[k] = last.result[j]

\* A query on a deck holding a card due exactly now, a card due later and a
\* card never reviewed.
C10_Witness ==
    /\ last.op = "getDueCards"
    /\ \E k \in DOMAIN last.cards :
          /\ HasData(last.cards[k]) /\ Data(last.cards[k]).nextReview = last.now
          /\ Data(last.cards[k]).repetitions > 0
          /\ Returned(last.cards[k])
    /\ \E k \in DOMAIN last.cards :
          /\ HasData(last.cards[k]) /\ Data(last.cards[k]).nextReview > last.now
          /\ ~Returned(last.cards[k])
    /\ \E k \in DOMAIN last.cards : ~HasData(last.cards[k]) /\ Returned(last.cards[k])

Positions(deck, card) == {k \in DOMAIN deck : deck[k] = card}

\* C11: what getDueCards returns is a subsequence of its input: the same
\* relative order, no card added, none repeated, and nothing for an empty input.
C11_DueSubsequence ==
    last.op = "getDueCards" =>
        /\ \A j \in DOMAIN last.result : Positions(last.cards, last.result[j]) # {}
        /\ \A i, j \in DOMAIN last.result :
              i < j => \E a \in Positions(last.cards, last.result[i]) :
                       \E b \in Positions(last.cards, last.result[j]) : a < b
        /\ \A i, j \in DOMAIN last.result : i # j => last.result[i] # last.result[j]
        /\ Len(last.result) <= Len(last.cards)
        /\ last.cards = <<>> => last.result = <<>>

\* A query that returns two or more cards and leaves out a card standing
\* before the last of them.
C11_Witness ==
    /\ last.op = "getDueCards"
    /\ Len(last.result) >= 2
    /\ \E k \in DOMAIN last.cards :
          /\ ~Returned(last.cards[k])
          /\ \E b \in Positions(last.cards, last.result[Len(last.result)]) : k < b

\* The cards of the queried deck that are difficult, and those that are due.
DifficultByClaim(card) ==
    \/ \E k \in DOMAIN card.reviewHistory : card.reviewHistory[k] \in {"unknown", "difficult"}
    \/ IF card.sm2Data = <<>> THEN FALSE ELSE card.sm2Data[1].easeFactor < 2000

DueByClaim(card, t) ==
    IF card.sm2Data = <<>> THEN TRUE ELSE card.sm2Data[1].nextReview <= t

\* C12: getDifficultCards returns exactly the cards that have a review record
\* 'unknown' or 'difficult' or an easeFactor below 2.0, and that are due as
\* getDueCards has it; a difficult card that is not due is not returned.
C12_DifficultExactly ==
    last.op = "getDifficultCards" =>
        /\ \A k \in DOMAIN last.cards :
              Returned(last.cards[k]) <=>
                 (DifficultByClaim(last.cards[k]) /\ DueByClaim(last.cards[k], last.now))
        /\ \A j \in DOMAIN last.result : Positions(last.cards, last.result[j]) # {}

\* A query on a deck with a card of low ease factor that is due and returned,
\* a card with a difficult record that is not due and left out, and a due card
\* that is not difficult.
C12_Witness ==
    /\ last.op = "getDifficultCards"
    /\ \E k \in DOMAIN last.cards :
          /\ HasData(last.cards[k]) /\ Data(last.cards[k]).easeFactor < 2000
          /\ last.cards[k].reviewHistory = <<>>
          /\ Returned(last.cards[k])
    /\ \E k \in DOMAIN last.cards :
          /\ last.cards[k].reviewHistory # <<>>
          /\ HasData(last.cards[k]) /\ Data(last.cards[k]).nextReview > last.now
          /\ ~Returned(last.cards[k])

\* C13: the review list of repeat mode is the union of the difficult and the
\* due cards: no card is in it twice, every due card is in it, and so is every
\* difficult card.
C13_ReviewListUnion ==
    last.op = "reviewCards" =>
        /\ \A i, j \in DOMAIN last.result : i # j => last.result[i].id # last.result[j].id
        /\ \A j \in DOMAIN last.due : Returned(last.due[j])
        /\ \A j \in DOMAIN last.difficult : Returned(last.difficult[j])
        /\ \A j \in DOMAIN last.result :
              \/ \E i \in DOMAIN last.due : last.due[i] = last.result[j]
              \/ \E i \in DOMAIN last.difficult : last.difficult[i] = last.result[j]

\* A review list built from a card that is both difficult and due and a card
\* that is due only.
C13_Witness ==
    /\ last.op = "reviewCards"
    /\ \E i \in DOMAIN last.due : \E j \in DOMAIN last.difficult : last.due[i] = last.difficult[j]
    /\ Len(last.result) > Len(last.difficult)
    /\ Len(last.result) < Len(last.difficult) + Len(last.due)

\* The positions of the cards that have a scheduling state.
WithState(deck) == {k \in DOMAIN deck : deck[k].sm2Data # <<>>}

\* The sum of the ease factors of the cards at the positions in S.
RECURSIVE EaseTotal(_, _)
EaseTotal(deck, S) ==
    IF S = {} THEN 0
    ELSE LET k == CHOOSE j \in S : TRUE
         IN  deck[k].sm2Data[1].easeFactor + EaseTotal(deck, S \ {k})

Abs(x) == IF x < 0 THEN 0 - x ELSE x

\* C14: getStudyStats on an empty collection returns total 0, masteryPercentage
\* 0 and avgEaseFactor 2.5, every field a number.
C14_EmptyStats ==
    (last.op = "getStudyStats" /\ last.cards = <<>>) =>
        /\ last.result.total = 0
        /\ last.result.masteryPercentage = 0
        /\ last.result.avgEaseFactor = 2500
        /\ \A f \in DOMAIN last.result : last.result[f] \in Nat

\* The statistics of the empty deck have been asked for.
C14_Witness ==
    /\ last.op = "getStudyStats"
    /\ last.cards = <<>>
    /\ last.result.total = 0

\* C15: total is the number of cards, reviewed the number of cards whose state
\* has lastReviewed, mastered the number of cards with easeFactor > 2.5 and
\* interval > 7, masteryPercentage the rounded share of mastered cards (0 for
\* no cards); mastered <= total and the percentage lies in 0..100.
C15_Counts ==
    last.op = "getStudyStats" =>
        LET deck == last.cards
            S == WithState(deck)
            r == last.result
        IN  /\ r.total = Len(deck)
            /\ r.reviewed = Cardinality({k \in S : deck[k].sm2Data[1].lastReviewed # 0})
            /\ r.mastered = Cardinality({k \in S : /\ deck[k].sm2Data[1].easeFactor > 2500
                                                   /\ deck[k].sm2Data[1].interval > 7})
            /\ IF r.total = 0 THEN r.masteryPercentage = 0
               ELSE 2 * Abs(100 * r.mastered - r.masteryPercentage * r.total) <= r.total
            /\ r.mastered <= r.total
            /\ r.masteryPercentage \in 0..100

\* Statistics of a deck of three cards of which one is mastered, one has an
\* ease factor above 2.5 but a short interval, and two have been reviewed.
C15_Witness ==
    /\ last.op = "getStudyStats"
    /\ last.result.total = 3
    /\ last.result.mastered = 1
    /\ last.result.masteryPercentage = 33
    /\ last.result.reviewed >= 2
    /\ \E k \in WithState(last.cards) :
          /\ last.cards[k].sm2Data[1].easeFactor > 2500
          /\ last.cards[k].sm2Data[1].interval <= 7

\* C16: in one result, due and difficult are the sizes of what getDueCards and
\* getDifficultCards return for the collection at one and the same time now.
C16_OneNow ==
    last.op = "getStudyStats" =>
        \E t \in last.t84..last.t101 :
            /\ last.result.due = Len(getDueCards(last.cards, t))
            /\ last.result.difficult = Len(getDifficultCards(last.cards, t))

\* C17: avgEaseFactor is the mean of easeFactor over exactly the cards that
\* have a scheduling state, rounded to two decimals, 2.5 when there is no such
\* card, and not below 1.3 when no stored easeFactor is.
C17_MeanEase ==
    last.op = "getStudyStats" =>
        LET deck == last.cards
            S == WithState(deck)
            n == Cardinality(S)
            avg == last.result.avgEaseFactor
        IN  IF n = 0 THEN avg = 2500
            ELSE /\ avg % 10 = 0
                 /\ Abs(avg * n - EaseTotal(deck, S)) <= 5 * n
                 /\ (\A k \in S : deck[k].sm2Data[1].easeFactor >= 1300) => avg >= 1300

\* Statistics of a deck with a card without state and two or more cards with
\* state whose mean is not a whole number of hundredths.
C17_Witness ==
    /\ last.op = "getStudyStats"
    /\ WithState(last.cards) # DOMAIN last.cards
    /\ Cardinality(WithState(last.cards)) >= 2
    /\ EaseTotal(last.cards, WithState(last.cards)) % (10 * Cardinality(WithState(last.cards))) # 0
    /\ last.result.avgEaseFactor # 2500

\* C18: getUpcomingReviews returns exactly `days` distinct calendar-date keys,
\* one for each consecutive day from today on, a day without reviews being
\* present with value 0.
C18_OneKeyPerDay ==
    last.op = "getUpcomingReviews" =>
        /\ Cardinality(DOMAIN last.result) = last.days
        /\ \E today \in {UtcDate(last.now), UtcDate(last.now + TzOffset(last.now, Zone))} :
              DOMAIN last.result = today..(today + last.days - 1)
        /\ \A key \in DOMAIN last.result : last.result[key] \in Nat

\* The sum of the values of a schedule over the keys in K.
RECURSIVE ScheduleTotal(_, _)
ScheduleTotal(schedule, K) ==
    IF K = {} THEN 0
    ELSE LET key == CHOOSE x \in K : TRUE
         IN  schedule[key] + ScheduleTotal(schedule, K \ {key})

\* C19: the value for a date is the number of cards whose nextReview falls on
\* that date, cards without scheduling state are in no bucket, and the values
\* sum to at most the number of cards with scheduling state.
C19_BucketCounts ==
    last.op = "getUpcomingReviews" =>
        LET deck == last.cards
            S == WithState(deck)
        IN  /\ \A key \in DOMAIN last.result :
                  last.result[key] =
                      Cardinality({k \in S : deck[k].sm2Data[1].nextReview \div HoursPerDay = key})
            /\ ScheduleTotal(last.result, DOMAIN last.result) <= Cardinality(S)

\* A forecast with two cards on one date, a date without cards, a card
\* without state and a card scheduled after the last date.
C19_Witness ==
    /\ last.op = "getUpcomingReviews"
    /\ \E key \in DOMAIN last.result : last.result[key] = 2
    /\ \E key \in DOMAIN last.result : last.result[key] = 0
    /\ WithState(last.cards) # DOMAIN last.cards
    /\ ScheduleTotal(last.result, DOMAIN last.result) < Cardinality(WithState(last.cards))

\* C20: responseToQuality maps 'know' to 5, 'difficult' to 3, 'unknown' to 1
\* and any other value to 1; so 'know' and 'difficult' take the correct branch
\* of calculateNextReview and 'unknown' the incorrect one.
C20_ResponseLookup ==
    last.op = "responseToQuality" =>
        /\ last.response = "know" => last.score = 5
        /\ last.response = "difficult" => last.score = 3
        /\ last.response = "unknown" => last.score = 1
        /\ last.response \notin {"know", "difficult", "unknown"} => last.score = 1
        /\ last.response \in {"know", "difficult"} =>
              last.call.result.repetitions = last.call.repetitions + 1
        /\ last.response = "unknown" =>
              /\ last.call.result.repetitions = 0
              /\ last.call.result.interval = 1

\* A card answered 'difficult' after an earlier success, and moved on to its
\* second repetition.
C20_Witness ==
    /\ last.op = "responseToQuality"
    /\ last.response = "difficult"
    /\ last.score = 3
    /\ last.call.repetitions = 1
    /\ last.call.result.repetitions = 2

EngineOps ==
    {"calculateNextReview", "getDueCards", "getDifficultCards", "getStudyStats",
     "getUpcomingReviews"}

\* C21: no engine operation changes its inputs: over a call the collection,
\* its order and every card's scheduling state and review history stay as
\* they were, and after calculateNextReview the card still holds the state
\* the call read, the new state being in the returned value only.
C21_InputsUnchanged ==
    [][last'.op \in EngineOps =>
          /\ cards' = cards
          /\ last'.op = "calculateNextReview" =>
                \E k \in DOMAIN cards' :
                    /\ cards'[k].id = last'.id
                    /\ HasData(cards'[k]) = last'.hadData
                    /\ HasData(cards'[k]) =>
                          Numbers(Data(cards'[k])) =
                              <<last'.easeFactor, last'.interval, last'.repetitions>>]_vars

\* calculateNextReview has returned a state for a card that had a state, and
\* the card in the collection still holds the old one.
C21_Witness ==
    /\ last.op = "calculateNextReview"
    /\ last.hadData
    /\ \E k \in DOMAIN cards :
          /\ cards[k].id = last.id
          /\ HasData(cards[k])
          /\ Data(cards[k]) # last.result
          /\ Data(cards[k]).easeFactor = last.easeFactor

\* C22: calculateNextReview returns a complete scheduling state of five
\* numbers for every prior state, present or absent, and every quality,
\* negative, fractional and out of range included; an absent prior state
\* counts as easeFactor 2.5, interval 1, repetitions 0.
C22_Total ==
    Called =>
        /\ DOMAIN last.result =
               {"easeFactor", "interval", "repetitions", "nextReview", "lastReviewed"}
        /\ \A f \in DOMAIN last.result : last.result[f] \in Nat
        /\ ~last.hadData =>
              Numbers(last.result) =
                  Numbers(calculateNextReview(
                              [id |-> last.id, reviewHistory |-> <<>>,
                               sm2Data |-> <<SM2(2500, 1, 0, 0, 0)>>],
                              last.quality, last.t68, last.t76, Zone))

\* A card without state rated with a negative quality, and a state returned.
C22_Witness ==
    /\ Called
    /\ ~last.hadData
    /\ last.quality < 0
    /\ Numbers(last.result) = <<2300, 1, 0>>

\* C23: for a quality of 3 or more the new interval is 1 when the prior
\* repetitions are 0 and 6 when they are 1, whatever the ease factor and the
\* prior interval, and round(prior interval * prior easeFactor) when they are
\* 2 or more, the ease factor being the one before this review's update.
C23_IntervalByRepetitions ==
    (Called /\ ClampQuality(last.quality) >= 3) =>
        /\ last.repetitions = 0 => last.result.interval = 1
        /\ last.repetitions = 1 => last.result.interval = 6
        /\ last.repetitions >= 2 =>
              last.result.interval = (2 * last.interval * last.easeFactor + 1000) \div 2000

\* A success on a card in its first repetition whose prior interval is 3 and
\* whose ease factor is 2.3: the new interval is 6.
C23_Witness ==
    /\ Called
    /\ ClampQuality(last.quality) >= 3
    /\ last.repetitions = 1
    /\ last.interval = 3
    /\ last.easeFactor = 2300
    /\ last.result.interval = 6

\* The number of reviews of quality 3 or more at the end of a sequence.
RECURSIVE Streak(_)
Streak(reviews) ==
    IF reviews = <<>> THEN 0
    ELSE IF ClampQuality(reviews[Len(reviews)].call.quality) >= 3
         THEN 1 + Streak(SubSeq(reviews, 1, Len(reviews) - 1))
         ELSE 0

\* C24: after any sequence of reviews of a card that started without state,
\* repetitions is the number of consecutive reviews of quality 3 or more at
\* the end of the sequence, and 0 right after a review of quality below 3.
C24_RepetitionsIsStreak ==
    /\ HasData(cards[1]) <=> Reviews # <<>>
    /\ HasData(cards[1]) =>
          /\ Data(cards[1]).repetitions \in Nat
          /\ Data(cards[1]).repetitions = Streak(Reviews)
          /\ Reviews[Len(Reviews)].call.quality < 30 => Data(cards[1]).repetitions = 0

\* A success, a failure and a success: the streak is 1 after three reviews.
C24_Witness ==
    /\ Len(Reviews) = 3
    /\ Reviews[1].call.quality >= 30
    /\ Reviews[2].call.quality < 30
    /\ Reviews[3].call.quality >= 30
    /\ Data(cards[1]).repetitions = 1

\* The calendar date the host's clock shows at instant t, as a day number.
LocalDate(t) == (t + TzOffset(t, Zone)) \div HoursPerDay

\* The card of the deck the last call was made on.
CalledCard == cards[CHOOSE k \in DOMAIN cards : cards[k].id = last.id]

\* C26: a card just reviewed, with the returned state stored on it, is not due
\* at the time of the review: its nextReview is later than the review time, by
\* one calendar day or more, and getDueCards and getDifficultCards evaluated
\* at the review time leave it out.
C26_ReviewedNotDue ==
    Called =>
        /\ Data(CalledCard) = last.result
        /\ Data(CalledCard).nextReview > last.t76
        /\ LocalDate(Data(CalledCard).nextReview) >= LocalDate(last.t68) + 1
        /\ \A t \in last.t68..last.t76 :
              /\ \A j \in DOMAIN getDueCards(cards, t) : getDueCards(cards, t)[j].id # last.id
              /\ \A j \in DOMAIN getDifficultCards(cards, t) :
                    getDifficultCards(cards, t)[j].id # last.id

\* A card with a 'difficult' record and no state has been rated while the
\* clock moved, and other cards of the deck are still due.
C26_Witness ==
    /\ Called
    /\ ~last.hadData
    /\ HasDifficultHistory(CalledCard)
    /\ last.t76 > last.t68
    /\ getDueCards(cards, last.t76) # <<>>
    /\ Data(CalledCard).nextReview > last.t76

\* C27: in every state reached by reviews, repetitions >= 2 implies
\* interval >= 6; within a run of correct reviews the interval never
\* decreases from one review to the next, and it increases strictly from the
\* second correct review of the run on.
C27_IntervalGrowth ==
    /\ \A k \in DOMAIN cards :
          (HasData(cards[k]) /\ Data(cards[k]).repetitions >= 2) => Data(cards[k]).interval >= 6
    /\ (Called /\ ClampQuality(last.quality) >= 3) =>
          /\ last.result.interval >= last.interval
          /\ last.repetitions >= 1 => last.result.interval > last.interval

\* The fourth correct review in a row of a card whose ease factor is at its
\* floor: the interval goes from 8 to 10.
C27_Witness ==
    /\ Called
    /\ ClampQuality(last.quality) >= 3
    /\ last.repetitions = 3
    /\ last.easeFactor = 1300
    /\ last.interval = 8
    /\ last.result.interval = 10

\* C28: in every getStudyStats result difficult <= due <= total, also when
\* the clock advances between the reads getDueCards and getDifficultCards
\* make of it.
C28_StatsOrdered ==
    last.op = "getStudyStats" =>
        /\ last.result.difficult <= last.result.due
        /\ last.result.due <= last.result.total

\* C25: in a repeat-mode session every card of the starting review list is
\* presented and rated exactly once before the session shows completion: the
\* cards are rated in the order of the list, none is skipped, and completion
\* is not shown while a card of the starting list is unrated.
C25_EveryCardRated ==
    last.op = "RepeatMode" =>
        /\ Len(trail) <= Len(last.started)
        /\ \A k \in DOMAIN trail : trail[k].card = last.started[k].id
        /\ (view.mode = "repeat" /\ view.showCompletion) => Len(trail) = Len(last.started)

\* C29: the results passed to onComplete report reviewedCards equal to the
\* number of ratings given in the session, the last one included, and
\* avgQuality equal to the mean of all those ratings.
C29_ResultsCountAll ==
    (last.op = "onComplete" /\ last.mode = "repeat") =>
        /\ last.results.reviewedCards = Len(trail)
        /\ 2 * Abs(last.results.avgQuality * Len(trail)
                      - 100 * SumSeq([k \in DOMAIN trail |-> trail[k].quality])) <= Len(trail)

\* The number of correct answers in a row that ends with answer k.
RECURSIVE RunEndingAt(_)
RunEndingAt(k) ==
    IF k = 0 THEN 0
    ELSE IF trail[k].correct THEN 1 + RunEndingAt(k - 1) ELSE 0

\* The longest run of correct answers in a row over the whole exam.
LongestRun ==
    CHOOSE n \in 0..Len(trail) :
        /\ \E k \in 0..Len(trail) : RunEndingAt(k) = n
        /\ \A k \in 0..Len(trail) : RunEndingAt(k) <= n

\* C30: the results of an exam satisfy correctAnswers + incorrectAnswers =
\* totalQuestions, and streak and maxStreak account for every answer, the
\* last included: maxStreak is the longest run of correct answers of the
\* whole exam, totalQuestions for an exam answered entirely correctly.
C30_ExamResults ==
    (last.op = "onComplete" /\ last.mode = "exam") =>
        /\ last.results.totalQuestions = Len(trail)
        /\ last.results.correctAnswers + last.results.incorrectAnswers
              = last.results.totalQuestions
        /\ last.results.streak = RunEndingAt(Len(trail))
        /\ last.results.maxStreak = LongestRun
        /\ (\A k \in DOMAIN trail : trail[k].correct) =>
              last.results.maxStreak = last.results.totalQuestions

\* The totals alone: correctAnswers + incorrectAnswers = totalQuestions, one
\* answer per card.
C30_TotalsOnly ==
    (last.op = "onComplete" /\ last.mode = "exam") =>
        /\ last.results.totalQuestions = Len(trail)
        /\ last.results.correctAnswers + last.results.incorrectAnswers
              = last.results.totalQuestions

====
